---- MODULE Spec2Model ----
(***************************************************************************)
(* The datasets API of hasher-matcher-actioner                             *)
(* (hmalib/lambdas/api/datasets_api.py): five HTTP handlers over the HMA   *)
(* config store of ThreatExchangeConfig records.                           *)
(*                                                                         *)
(* The handlers are translated from datasets_api.py.  The config store     *)
(* (hmalib.common.config, hmalib.common.threatexchange_config) is not part *)
(* of the sources at hand; its operations are modelled from the            *)
(* specification's description of the Config Store Client.                 *)
(***************************************************************************)
EXTENDS Integers, Sequences, FiniteSets, Bags, TLC

VARIABLES
    store,      \* the config table: a set of ThreatExchangeConfig records
    last,       \* the last completed store call or handler: what was asked, what came back
    inflight    \* the requests running in parallel that are between two store calls:
                \* a bag of what each handler holds locally

vars == <<store, last, inflight>>

---------------------------------------------------------------------------
(* Bounds of the model.                                                    *)

\* Numeric privacy group ids are 1..MaxId.
MaxId == 1

\* Number of requests the HTTP host may run in parallel.
MaxProcs == 2

---------------------------------------------------------------------------
(* Python values for privacy_group_id: t.Union[int, str].  A text is a     *)
(* sequence of one-character strings.                                      *)

PyInt(n) == [t |-> "int", n |-> n, s |-> <<>>]

PyStr(s) == [t |-> "str", n |-> 0, s |-> s]

Digits == <<"0", "1", "2", "3", "4", "5", "6", "7", "8", "9">>

DigitVal(c) == (CHOOSE i \in 1..10 : Digits[i] = c) - 1

IsDigit(c) == \E i \in 1..10 : Digits[i] = c

RECURSIVE IntToText(_)
IntToText(n) ==
    IF n < 10 THEN <<Digits[n + 1]>>
    ELSE IntToText(n \div 10) \o <<Digits[(n % 10) + 1]>>

RECURSIVE TextToInt(_)
TextToInt(s) ==
    IF Len(s) = 0 THEN 0
    ELSE 10 * TextToInt(SubSeq(s, 1, Len(s) - 1)) + DigitVal(s[Len(s)])

\* Python's str(): the decimal text of an int, a str as it is.
str(v) == IF v.t = "int" THEN PyStr(IntToText(v.n)) ELSE v

\* Python's int(): an int as it is, a str of decimal digits parsed, and
\* ValueError (ok = FALSE) for any other str.
int(v) ==
    IF v.t = "int" THEN [ok |-> TRUE, v |-> v]
    ELSE IF Len(v.s) > 0 /\ \A i \in 1..Len(v.s) : IsDigit(v.s[i])
         THEN [ok |-> TRUE, v |-> PyInt(TextToInt(v.s))]
         ELSE [ok |-> FALSE, v |-> v]

---------------------------------------------------------------------------
(* Inputs.                                                                 *)

IntIds == {PyInt(n) : n \in 1..MaxId}

\* Ids a caller may send: a number, the same number as a string, or a
\* string that is not a number.
RequestIds == IntIds \cup {str(v) : v \in IntIds} \cup {PyStr(<<"x">>)}

\* The <key> of /delete/<key>: a piece of the URL path, always a string.
PathKeys == {v \in RequestIds : v.t = "str"}

Names == {"G"}

Descriptions == {"d"}

CreateDatasetRequest ==
    [privacy_group_id : RequestIds, privacy_group_name : Names,
     description : Descriptions, fetcher_active : BOOLEAN,
     matcher_active : BOOLEAN, write_back : BOOLEAN]

UpdateDatasetRequest ==
    [privacy_group_id : RequestIds, fetcher_active : BOOLEAN,
     matcher_active : BOOLEAN, write_back : BOOLEAN]

\* What the external collaboration source may enumerate: a set of
\* collaborations, at most one per (numeric) id.
Collabs == [id : IntIds, name : Names, description : Descriptions]

RemoteListings ==
    {L \in SUBSET Collabs : \A a, b \in L : a.id = b.id => a = b}

---------------------------------------------------------------------------
(* The config store.                                                       *)

Has(st, key) == \E c \in st : c.name = key

\* ThreatExchangeConfig.getx(name): the record, or NotFound.
getx(st, key) ==
    IF Has(st, key)
    THEN [ok |-> TRUE, config |-> CHOOSE c \in st : c.name = key]
    ELSE [ok |-> FALSE, config |-> [name |-> key]]

RECURSIVE Orders(_)
Orders(S) ==
    IF S = {} THEN {<<>>}
    ELSE UNION {{<<c>> \o o : o \in Orders(S \ {c})} : c \in S}

\* ThreatExchangeConfig.get_all(): every record, in the store's own order.
get_all(st) == Orders(st)

\* hmaconfig.update_config(config): upsert under the config's name.
update_config(st, config) == {c \in st : c.name # config.name} \cup {config}

\* hmaconfig.delete_config(config)
delete_config(st, config) == {c \in st : c.name # config.name}

\* create_privacy_group_if_not_exists(...): no overwrite, no error.
create_privacy_group_if_not_exists(st, privacy_group_id, privacy_group_name, description, in_use, fetcher_active, matcher_active, write_back) ==
    IF Has(st, privacy_group_id) THEN st
    ELSE st \cup {[name |-> privacy_group_id,
                   privacy_group_name |-> privacy_group_name,
                   description |-> description,
                   fetcher_active |-> fetcher_active,
                   matcher_active |-> matcher_active,
                   write_back |-> write_back,
                   in_use |-> in_use]}

\* sync_privacy_groups(): create-if-absent for every remote collaboration.
RECURSIVE sync_privacy_groups(_, _, _)
sync_privacy_groups(st, remote, defaults) ==
    IF remote = {} THEN st
    ELSE LET c == CHOOSE x \in remote : TRUE
         IN sync_privacy_groups(
                create_privacy_group_if_not_exists(
                    st, str(c.id), c.name, c.description, TRUE,
                    defaults.fetcher_active, defaults.matcher_active,
                    defaults.write_back),
                remote \ {c}, defaults)

\* collab.privacy_group_id: the record's key.
privacy_group_id(config) == config.name

---------------------------------------------------------------------------
(* The Dataset wire record and the responses.                              *)

Dataset(id, name, description, fetcher_active, matcher_active, write_back, in_use) ==
    [privacy_group_id |-> id, privacy_group_name |-> name,
     description |-> description, fetcher_active |-> fetcher_active,
     matcher_active |-> matcher_active, write_back |-> write_back,
     in_use |-> in_use]

from_collab(collab) ==
    Dataset(privacy_group_id(collab), collab.privacy_group_name,
            collab.description, collab.fetcher_active, collab.matcher_active,
            collab.write_back, collab.in_use)

\* Dataset.from_dict(d): int(d["privacy_group_id"]) may raise ValueError.
from_dict(d) ==
    IF int(d.privacy_group_id).ok
    THEN [ok |-> TRUE,
          value |-> Dataset(int(d.privacy_group_id).v, d.privacy_group_name,
                            d.description, d.fetcher_active, d.matcher_active,
                            d.write_back, d.in_use)]
    ELSE [ok |-> FALSE, value |-> "ValueError"]

DatasetsResponse(collabs) ==
    [datasets_response |-> [i \in 1..Len(collabs) |-> from_collab(collabs[i])]]

CreateDatasetResponse(id) == [response |-> <<"Created dataset ", str(id).s>>]

SyncDatasetResponse == [response |-> "Privacy groups are up to date"]

DeleteDatasetResponse == [response |-> "The privacy group is deleted"]

Error(kind) == [error |-> kind]

NoRequest == [none |-> TRUE]

---------------------------------------------------------------------------
(* The handlers.  Each is a function of the store it finds: the store it   *)
(* leaves, what it returns, and how many store writes it made.             *)

\* GET /
datasets(collabs) == DatasetsResponse(collabs)

\* set_flags with write_back and matcher_active taken from each other's field.
set_flags_crossed(config, request) ==
    [config EXCEPT !.fetcher_active = request.fetcher_active,
                   !.write_back = request.matcher_active,
                   !.matcher_active = request.write_back]

\* update_dataset, lines 152-154: the three assignments to the config read.
set_flags(config, request) ==
    [config EXCEPT !.fetcher_active = request.fetcher_active,
                   !.write_back = request.write_back,
                   !.matcher_active = request.matcher_active]

\* update_dataset, lines 155-157: what the handler makes of the saved config.
updated_dataset(updated_config) ==
    LET d == [privacy_group_id |-> updated_config.name,
              privacy_group_name |-> updated_config.privacy_group_name,
              description |-> updated_config.description,
              fetcher_active |-> updated_config.fetcher_active,
              matcher_active |-> updated_config.matcher_active,
              write_back |-> updated_config.write_back,
              in_use |-> updated_config.in_use]
    IN IF from_dict(d).ok THEN from_dict(d).value ELSE Error(from_dict(d).value)

\* update_dataset saving the flags under the id whether or not getx found it.
update_dataset_unchecked(st, request) ==
    LET got == getx(st, str(request.privacy_group_id))
        config == IF got.ok THEN set_flags(got.config, request)
                  ELSE [name |-> str(request.privacy_group_id),
                        privacy_group_name |-> "", description |-> "",
                        fetcher_active |-> request.fetcher_active,
                        matcher_active |-> request.matcher_active,
                        write_back |-> request.write_back, in_use |-> TRUE]
    IN [store |-> update_config(st, config),
        resp |-> updated_dataset(config), writes |-> 1]

\* POST /update
update_dataset(st, request) ==
    LET got == getx(st, str(request.privacy_group_id))
        config == set_flags(got.config, request)
    IN IF ~got.ok
       THEN [store |-> st, resp |-> Error("NotFound"), writes |-> 0]
       ELSE [store |-> update_config(st, config),
             resp |-> updated_dataset(config), writes |-> 1]

\* create_dataset passing fetcher_active and matcher_active crossed.
create_dataset_crossed(st, request) ==
    LET after == create_privacy_group_if_not_exists(
                     st, str(request.privacy_group_id),
                     request.privacy_group_name, request.description, TRUE,
                     request.matcher_active, request.fetcher_active,
                     request.write_back)
    IN [store |-> after,
        resp |-> CreateDatasetResponse(request.privacy_group_id),
        writes |-> Cardinality(after \ st)]

\* create_dataset saving with update_config instead of creating if absent.
create_dataset_overwriting(st, request) ==
    LET after == update_config(st,
                     [name |-> str(request.privacy_group_id),
                      privacy_group_name |-> request.privacy_group_name,
                      description |-> request.description,
                      fetcher_active |-> request.fetcher_active,
                      matcher_active |-> request.matcher_active,
                      write_back |-> request.write_back,
                      in_use |-> TRUE])
    IN [store |-> after,
        resp |-> CreateDatasetResponse(request.privacy_group_id),
        writes |-> 1]

\* create_dataset passing privacy_group_id as it came, without str().
create_dataset_raw_id(st, request) ==
    LET after == create_privacy_group_if_not_exists(
                     st, request.privacy_group_id,
                     request.privacy_group_name, request.description, TRUE,
                     request.fetcher_active, request.matcher_active,
                     request.write_back)
    IN [store |-> after,
        resp |-> CreateDatasetResponse(request.privacy_group_id),
        writes |-> Cardinality(after \ st)]

\* POST /create
create_dataset(st, request) ==
    LET after == create_privacy_group_if_not_exists(
                     st, str(request.privacy_group_id),
                     request.privacy_group_name, request.description, TRUE,
                     request.fetcher_active, request.matcher_active,
                     request.write_back)
    IN [store |-> after,
        resp |-> CreateDatasetResponse(request.privacy_group_id),
        writes |-> Cardinality(after \ st)]

\* sync_datasets saving every remote collaboration over what is stored.
RECURSIVE sync_datasets_overwriting(_, _, _)
sync_datasets_overwriting(st, remote, defaults) ==
    IF remote = {}
    THEN [store |-> st, resp |-> SyncDatasetResponse, writes |-> 0]
    ELSE LET c == CHOOSE x \in remote : TRUE
             rest == sync_datasets_overwriting(st, remote \ {c}, defaults)
         IN [store |-> update_config(rest.store,
                           [name |-> str(c.id),
                            privacy_group_name |-> c.name,
                            description |-> c.description,
                            fetcher_active |-> defaults.fetcher_active,
                            matcher_active |-> defaults.matcher_active,
                            write_back |-> defaults.write_back,
                            in_use |-> TRUE]),
             resp |-> SyncDatasetResponse, writes |-> rest.writes + 1]

\* POST /sync
sync_datasets(st, remote, defaults) ==
    LET after == sync_privacy_groups(st, remote, defaults)
    IN [store |-> after, resp |-> SyncDatasetResponse,
        writes |-> Cardinality(after \ st)]

\* delete_dataset without the delete_config call.
delete_dataset_kept(st, key) ==
    LET got == getx(st, str(key))
    IN IF ~got.ok
       THEN [store |-> st, resp |-> Error("NotFound"), writes |-> 0]
       ELSE [store |-> st, resp |-> DeleteDatasetResponse, writes |-> 1]

\* delete_dataset with a get that returns nothing instead of raising.
delete_dataset_lenient(st, key) ==
    LET got == getx(st, str(key))
    IN [store |-> delete_config(st, got.config),
        resp |-> DeleteDatasetResponse, writes |-> 1]

\* POST /delete/<key>
delete_dataset(st, key) ==
    LET got == getx(st, str(key))
    IN IF ~got.ok
       THEN [store |-> st, resp |-> Error("NotFound"), writes |-> 0]
       ELSE [store |-> delete_config(st, got.config),
             resp |-> DeleteDatasetResponse, writes |-> 1]

---------------------------------------------------------------------------
(* One request at a time: every handler runs to completion.                *)

Done(op, req, r) ==
    /\ store' = r.store
    /\ last' = [op |-> op, req |-> req, resp |-> r.resp, writes |-> r.writes]

List ==
    /\ \E collabs \in get_all(store) :
           Done("datasets", NoRequest,
                [store |-> store, resp |-> datasets(collabs), writes |-> 0])
    /\ UNCHANGED inflight

Update(request) ==
    /\ Done("update", request, update_dataset(store, request))
    /\ UNCHANGED inflight

Create(request) ==
    /\ Done("create", request, create_dataset(store, request))
    /\ UNCHANGED inflight

Sync(remote, defaults) ==
    /\ Done("sync", [remote |-> remote], sync_datasets(store, remote, defaults))
    /\ UNCHANGED inflight

Delete(key) ==
    /\ Done("delete", [key |-> key], delete_dataset(store, key))
    /\ UNCHANGED inflight

Flags == [fetcher_active : BOOLEAN, matcher_active : BOOLEAN, write_back : BOOLEAN]

Init ==
    /\ store = {}
    /\ last = [op |-> "init", req |-> NoRequest, resp |-> NoRequest, writes |-> 0]
    /\ inflight = EmptyBag

Next ==
    \/ List
    \/ \E request \in UpdateDatasetRequest : Update(request)
    \/ \E request \in CreateDatasetRequest : Create(request)
    \/ \E remote \in RemoteListings, defaults \in Flags : Sync(remote, defaults)
    \/ \E key \in PathKeys : Delete(key)

Spec == Init /\ [][Next]_vars

---------------------------------------------------------------------------
(* Requests in parallel.  The module takes no lock, so the host may run    *)
(* another request between two store calls of a handler: update_dataset    *)
(* and delete_dataset each make two (getx, then the write).                *)

\* Inputs of the parallel runs: the flags all on or all off.
ParFlags == {f \in Flags : f.fetcher_active = f.matcher_active
                           /\ f.matcher_active = f.write_back}

IsPar(request) ==
    request.fetcher_active = request.matcher_active
    /\ request.matcher_active = request.write_back

\* update_dataset, lines 151-154: getx and the assignments to the local config.
UpdateGetx(request) ==
    LET got == getx(store, str(request.privacy_group_id))
    IN /\ BagCardinality(inflight) < MaxProcs
       /\ IF ~got.ok
          THEN /\ last' = [op |-> "update", req |-> request,
                           resp |-> Error("NotFound"), writes |-> 0]
               /\ UNCHANGED inflight
          ELSE /\ last' = [op |-> "getx", req |-> request,
                           resp |-> NoRequest, writes |-> 0]
               /\ inflight' = inflight (+) SetToBag(
                      {[op |-> "update", config |-> set_flags(got.config, request)]})
       /\ UNCHANGED store

\* update_dataset, lines 155-157: update_config and the response.
UpdateSave(p) ==
    /\ p.op = "update"
    /\ store' = update_config(store, p.config)
    /\ last' = [op |-> "update_config", req |-> NoRequest,
                resp |-> updated_dataset(p.config), writes |-> 1]
    /\ inflight' = inflight (-) SetToBag({p})

\* delete_dataset, line 193: getx.
DeleteGetx(key) ==
    LET got == getx(store, str(key))
    IN /\ BagCardinality(inflight) < MaxProcs
       /\ IF ~got.ok
          THEN /\ last' = [op |-> "delete", req |-> [key |-> key],
                           resp |-> Error("NotFound"), writes |-> 0]
               /\ UNCHANGED inflight
          ELSE /\ last' = [op |-> "getx", req |-> [key |-> key],
                           resp |-> NoRequest, writes |-> 0]
               /\ inflight' = inflight (+) SetToBag(
                      {[op |-> "delete", config |-> got.config]})
       /\ UNCHANGED store

\* delete_dataset, lines 194-195: delete_config and the response.
DeleteSave(p) ==
    /\ p.op = "delete"
    /\ store' = delete_config(store, p.config)
    /\ last' = [op |-> "delete_config", req |-> NoRequest,
                resp |-> DeleteDatasetResponse, writes |-> 1]
    /\ inflight' = inflight (-) SetToBag({p})

NextPar ==
    \/ List
    \/ \E request \in {r \in CreateDatasetRequest : IsPar(r)} : Create(request)
    \/ \E remote \in RemoteListings, defaults \in ParFlags : Sync(remote, defaults)
    \/ \E request \in {r \in UpdateDatasetRequest : IsPar(r)} : UpdateGetx(request)
    \/ \E p \in BagToSet(inflight) : UpdateSave(p)
    \/ \E key \in PathKeys : DeleteGetx(key)
    \/ \E p \in BagToSet(inflight) : DeleteSave(p)

SpecPar == Init /\ [][NextPar]_vars

---------------------------------------------------------------------------
(* Properties.                                                             *)

Key(request) == str(request.privacy_group_id)

\* The entries of a listing that carry the id `key`, in either form.
Listed(collabs, key) ==
    {i \in 1..Len(collabs) :
        str(datasets(collabs).datasets_response[i].privacy_group_id) = key}

\* C1: after a Create whose privacy_group_id was not in the store, every
\* List (whatever the store's enumeration order) holds exactly one record
\* with that id, and it has in_use = TRUE and the request's name,
\* description, fetcher_active, matcher_active and write_back.
CreateThenList ==
    [][(last'.op = "create" /\ ~Has(store, Key(last'.req)))
       => \A collabs \in get_all(store') :
            /\ Cardinality(Listed(collabs, Key(last'.req))) = 1
            /\ \A i \in Listed(collabs, Key(last'.req)) :
                 LET d == datasets(collabs).datasets_response[i]
                 IN /\ d.in_use = TRUE
                    /\ d.privacy_group_name = last'.req.privacy_group_name
                    /\ d.description = last'.req.description
                    /\ d.fetcher_active = last'.req.fetcher_active
                    /\ d.matcher_active = last'.req.matcher_active
                    /\ d.write_back = last'.req.write_back]_vars

\* A Create with a numeric id and mixed flags has just inserted a second record.
CreateThenListSeen ==
    /\ last.op = "create"
    /\ last.writes = 1
    /\ last.req.privacy_group_id.t = "int"
    /\ last.req.fetcher_active /\ ~last.req.matcher_active
    /\ Cardinality(store) = 2

\* C2: a Create whose privacy_group_id is already stored leaves the store
\* as it was (every field of that record too), writes nothing, raises
\* nothing and returns "Created dataset <id>".
CreateExistingNoOp ==
    [][(last'.op = "create" /\ Has(store, Key(last'.req)))
       => /\ store' = store
          /\ last'.writes = 0
          /\ last'.resp = [response |-> <<"Created dataset ", Key(last'.req).s>>]]_vars

\* A Create has just found its id stored with other flags than it asked for.
CreateExistingNoOpSeen ==
    /\ last.op = "create"
    /\ last.writes = 0
    /\ \E c \in store :
         /\ c.name = Key(last.req)
         /\ c.fetcher_active # last.req.fetcher_active
         /\ c.write_back # last.req.write_back

\* C3: an Update of a stored id replaces that record by one that differs
\* from it in fetcher_active, matcher_active and write_back only, which are
\* the request's; every other record is as before.
UpdateFlagsOnly ==
    [][(last'.op = "update" /\ Has(store, Key(last'.req)))
       => LET old == getx(store, Key(last'.req)).config
          IN store' = (store \ {old}) \cup
                 {[old EXCEPT !.fetcher_active = last'.req.fetcher_active,
                              !.matcher_active = last'.req.matcher_active,
                              !.write_back = last'.req.write_back]}]_vars

\* An Update with mixed flags has just been saved while another record is stored.
UpdateFlagsOnlySeen ==
    /\ last.op = "update"
    /\ last.writes = 1
    /\ last.req.matcher_active /\ ~last.req.write_back
    /\ Cardinality(store) = 2

\* C4: an Update of an id that is not stored fails with NotFound and
\* leaves the store as it was.
UpdateMissingNotFound ==
    [][(last'.op = "update" /\ ~Has(store, Key(last'.req)))
       => /\ store' = store
          /\ last'.writes = 0
          /\ last'.resp = Error("NotFound")]_vars

\* An Update has just failed with NotFound while another id is stored.
UpdateMissingNotFoundSeen ==
    /\ last.op = "update"
    /\ last.resp = Error("NotFound")
    /\ store # {}

\* C5: a Delete of a stored id removes that record and no other, returns
\* "The privacy group is deleted", and no List of the store it leaves holds
\* the id.
DeleteRemovesOne ==
    [][(last'.op = "delete" /\ Has(store, str(last'.req.key)))
       => /\ store' = store \ {getx(store, str(last'.req.key)).config}
          /\ last'.resp = [response |-> "The privacy group is deleted"]
          /\ \A collabs \in get_all(store') :
               Listed(collabs, str(last'.req.key)) = {}]_vars

\* A Delete has just removed one record of two.
DeleteRemovesOneSeen ==
    /\ last.op = "delete"
    /\ last.writes = 1
    /\ Cardinality(store) = 1

\* C6: a Delete of an id that is not stored fails with NotFound, issues no
\* store delete and leaves the store as it was.
DeleteMissingNotFound ==
    [][(last'.op = "delete" /\ ~Has(store, str(last'.req.key)))
       => /\ store' = store
          /\ last'.writes = 0
          /\ last'.resp = Error("NotFound")]_vars

\* A Delete has just failed with NotFound while another id is stored.
DeleteMissingNotFoundSeen ==
    /\ last.op = "delete"
    /\ last.resp = Error("NotFound")
    /\ store # {}

UniqueIds ==
    \A c1, c2 \in store : str(c1.name) = str(c2.name) => c1 = c2

\* A Create with a numeric id has just found its id stored, with two
\* records stored and two other requests between their store calls.
UniqueIdsSeen ==
    /\ last.op = "create"
    /\ last.req.privacy_group_id.t = "int"
    /\ last.writes = 0
    /\ Cardinality(store) = 2
    /\ BagCardinality(inflight) = 2

\* C9: an Update that has written to the store returns a wire record, not
\* an error, and its seven fields are those of the record now stored for
\* the id.
UpdateReturnsStored ==
    (last.op = "update" /\ last.writes = 1)
    => /\ DOMAIN last.resp # {"error"}
       /\ \E c \in store :
            /\ c.name = Key(last.req)
            /\ str(last.resp.privacy_group_id) = c.name
            /\ last.resp.privacy_group_name = c.privacy_group_name
            /\ last.resp.description = c.description
            /\ last.resp.fetcher_active = c.fetcher_active
            /\ last.resp.matcher_active = c.matcher_active
            /\ last.resp.write_back = c.write_back
            /\ last.resp.in_use = c.in_use

\* C10: under any interleaving, a record comes into existence only through
\* Create or Sync: no store call of an Update makes an id present that was
\* absent (removed by a Delete) just before it.
OnlyCreateOrSyncAdds ==
    [][(\E c \in store' : ~Has(store, c.name))
       => last'.op \in {"create", "sync"}]_vars

====
